---- MODULE Spec2Model ----
(***************************************************************************)
(* Client-side download approval controller of SecureShare                 *)
(* (static/js/client.js).  The file holds three builds of the client       *)
(* script: lines 1-185 (build 1), 186-513 (build 2) and 514-737 (build 3). *)
(* A page runs exactly one of them; `variant` says which.                  *)
(*                                                                         *)
(* The browser is a single-threaded event loop: every action below is one  *)
(* task of that loop (a user call, a timer callback, or the completion of  *)
(* a fetch), run to completion.                                            *)
(***************************************************************************)
EXTENDS Integers, FiniteSets, Sequences, TLC

\* ------------------------------------------------------------------ bounds
\* initiateDownload calls per page load
MaxInitiates == 2
\* interval ticks (check_request fetches issued) per page load
MaxTicks == 2
\* status interval ticks (status fetches issued) per browser session
MaxStatusTicks == 3
\* updateConfig / decide calls on the admin console
MaxAdminCalls == 3

\* ------------------------------------------------------------ value spaces
\* JavaScript null for handles and request ids (falsy, like 0)
NULL == 0
\* an absent string field (status, link) of an answer
NONE == "none"
Variants == {1, 2, 3}
\* req_id tokens the server issues (one fresh token per pending answer)
ReqIds == 1..MaxInitiates
\* download links the server hands out (direct_link / link)
Links == {"/dl/a", "/dl/b"}
\* status values of a JSON answer; "other" stands for any value that is
\* neither approved, pending nor rejected
Statuses == {"approved", "pending", "rejected", "other"}
\* how a fetch can complete: rejected promise (network error), a non-2xx
\* answer, or a 2xx JSON answer
Outcomes == {"neterr", "http_error", "ok"}
\* config_id tokens of the status answer
ConfigIds == {1, 2}
\* where checkStatus can send the browser; "reload" is window.location.reload()
LOGIN == "/login?reason=logout"
LOGOUT == "/logout"
FILES == "/files"
RELOAD == "reload"
Targets == {LOGIN, LOGOUT, FILES, RELOAD}
\* targets that serve the file listing, i.e. load client.js again
ClientPages == {FILES, RELOAD}
\* values of localStorage.getItem('viewMode'); NONE when the key is absent
ViewModes == {"grid", "list"}
NoEvent == [op |-> "init", status |-> NONE, req |-> NULL, link |-> NONE]
NoStatus == [op |-> "init", ok |-> FALSE, force_logout |-> FALSE, running |-> FALSE,
             paused |-> FALSE, config_id |-> NULL]

VARIABLES
    variant,          \* which build of client.js the page loaded
    page,             \* "live", or "reloading" after window.location.reload()
    modalOpen,        \* #approvalModal shown (opacity-0 / pointer-events-none removed)
    statusWaiting,    \* #statusWaiting visible (class hidden absent)
    statusApproved,   \* #statusApproved visible
    statusRejected,   \* #statusRejected visible
    reqIdDisplay,     \* text of #reqIdDisplay
    currentReqId,     \* let currentReqId (build 2 only)
    pollInterval,     \* let pollInterval: last handle returned by setInterval
    timers,           \* running interval timers: handle -> req id their closure polls
    nextHandle,       \* next handle setInterval will return
    nextReq,          \* next req_id the server will issue
    downloadFetches,  \* request_download fetches in flight
    checkFetches,     \* check_request fetches in flight, per req id
    cancelFetches,    \* cancel_request fetches in flight, per req id
    navTimeouts,      \* pending setTimeout(…, 1500) navigations: <<req, link>> -> count
    navScheduled,     \* history: setTimeout navigations ever scheduled, per req id
    navs,             \* history: window.location.href assignments, per link
    alerts,           \* alert() dialogs shown
    initiated,        \* initiateDownload calls so far
    ticks,            \* interval ticks so far
    last,             \* history: the task that ran last
    pausedState,      \* let pausedState
    currentConfigId,  \* let currentConfigId (builds 2 and 3)
    overlayShown,     \* #pauseOverlay visible (opacity-0 / pointer-events-none removed)
    mainBlurred,      \* #main-content carries blur-sm
    statusInterval,   \* the setInterval(checkStatus, 1000) timer is running
    statusFetches,    \* status fetches in flight
    statusTicks,      \* status interval ticks so far
    statusNavs,       \* history: navigations checkStatus started, per target
    location,         \* history: the target of the last such navigation
    pauseToggles,     \* history: times the pause overlay classes were changed
    isGridView,       \* let isGridView
    viewMode,         \* localStorage 'viewMode'
    shownMode,        \* layout #fileContainer currently carries
    seen,             \* history: the last task of the watcher / view code
    toastTimeout,     \* admin console: let toastTimeout (undefined or a timeout handle)
    toastTimers,      \* pending hide timeouts: handle -> seconds until due
    nextToastHandle,  \* handle the next setTimeout of the admin console returns
    toastShown,       \* #notificationToast is visible (hiding classes removed)
    toastMessage,     \* #toastMessage innerText
    toastAge,         \* seconds since the latest showNotification call, up to ToastDelay
    configFetches,    \* updateConfig POSTs in flight, per type
    decisionFetches,  \* decide POSTs in flight, per decision
    requestsFetches,  \* fetchRequests GETs in flight that decide started
    adminCalls,       \* history: updateConfig / decide calls so far
    notified,         \* history: showNotification calls so far
    cancelledHides,   \* history: pending hide timeouts clearTimeout removed
    adminLast         \* history: the last task of the admin console

vars == <<variant, page, modalOpen, statusWaiting, statusApproved, statusRejected,
          reqIdDisplay, currentReqId, pollInterval, timers, nextHandle, nextReq,
          downloadFetches, checkFetches, cancelFetches, navTimeouts, navScheduled,
          navs, alerts, initiated, ticks, last,
          pausedState, currentConfigId, overlayShown, mainBlurred, statusInterval,
          statusFetches, statusTicks, statusNavs, location, pauseToggles,
          isGridView, viewMode, shownMode, seen,
          toastTimeout, toastTimers, nextToastHandle, toastShown, toastMessage,
          toastAge, configFetches, decisionFetches, requestsFetches, adminCalls,
          notified, cancelledHides, adminLast>>

\* state of the session watcher and of the view preference
watcherVars == <<pausedState, currentConfigId, overlayShown, mainBlurred,
                 statusInterval, statusFetches, statusTicks, statusNavs, location,
                 pauseToggles, isGridView, viewMode, shownMode, seen>>

\* state of the admin console page
adminVars == <<toastTimeout, toastTimers, nextToastHandle, toastShown, toastMessage,
               toastAge, configFetches, decisionFetches, requestsFetches, adminCalls,
               notified, cancelledHides, adminLast>>

\* state of the download controller (page excepted)
controllerVars == <<modalOpen, statusWaiting, statusApproved, statusRejected,
                    reqIdDisplay, currentReqId, pollInterval, timers, nextHandle,
                    nextReq, downloadFetches, checkFetches, cancelFetches,
                    navTimeouts, navScheduled, navs, alerts, initiated, ticks, last>>

\* ----------------------------------------------------------------- helpers
Event(op, status, req, link) == [op |-> op, status |-> status, req |-> req, link |-> link]

\* f with the count at key k raised / lowered by one
Inc(f, k) == [f EXCEPT ![k] = @ + 1]
Dec(f, k) == [f EXCEPT ![k] = @ - 1]

\* clearInterval(id): stops the timer with that handle, if there is one;
\* clearInterval(null) and clearInterval of a stopped handle do nothing
ClearInterval(tm, id) == [h \in (DOMAIN tm) \ {id} |-> tm[h]]

\* setInterval(callback polling reqId): a new running timer under handle h
SetInterval(tm, h, reqId) == [x \in (DOMAIN tm) \cup {h} |-> IF x = h THEN reqId ELSE tm[x]]

\* data.req_id.substring(0, 8) as shown in the modal
IdText(reqId) == [text |-> "ID: <id>", id |-> reqId]
IdPlaceholder == [text |-> "ID: ...", id |-> NULL]

\* --------------------------------------------------------------- functions
\* closeModal(): hide the modal, clear the timer whose handle pollInterval
\* holds, and (build 2) forget the active request id.  pollInterval itself
\* is never reset.
closeModal ==
    /\ modalOpen' = FALSE
    /\ timers' = IF pollInterval # NULL THEN ClearInterval(timers, pollInterval) ELSE timers
    /\ currentReqId' = IF variant = 2 THEN NULL ELSE currentReqId
    /\ UNCHANGED pollInterval

\* pollRequest(reqId): pollInterval = setInterval(...).  The previous handle
\* is overwritten, not cleared.
pollRequest(reqId) ==
    /\ pollInterval' = nextHandle
    /\ timers' = SetInterval(timers, nextHandle, reqId)
    /\ nextHandle' = nextHandle + 1

\* showApproved() / showRejected()
showApproved ==
    /\ statusWaiting' = FALSE
    /\ statusApproved' = TRUE
    /\ UNCHANGED statusRejected

showRejected ==
    /\ statusWaiting' = FALSE
    /\ statusRejected' = TRUE
    /\ UNCHANGED statusApproved

\* ------------------------------------------------------------------ state
\* ---- admin console (src/unnamed/part_000): value spaces and initial state

\* setTimeout(..., 3000), in seconds
ToastDelay == 3
ConfigTypes == {"folder", "password"}
Decisions == {"approved", "rejected"}

\* const msg = type === 'folder' ? ... : ...
ConfigMessage(type) ==
    IF type = "folder" THEN "Shared folder path updated." ELSE "Access password updated."
\* `Request ${decision}.`
DecisionMessage(decision) ==
    IF decision = "approved" THEN "Request approved." ELSE "Request rejected."

\* the two setInterval calls of lines 149-150 take the first two timer ids
AdminInit ==
    /\ toastTimeout = NULL
    /\ toastTimers = [h \in {} |-> 0]
    /\ nextToastHandle = 3
    /\ toastShown = FALSE
    /\ toastMessage = NONE
    /\ toastAge = ToastDelay
    /\ configFetches = [t \in ConfigTypes |-> 0]
    /\ decisionFetches = [d \in Decisions |-> 0]
    /\ requestsFetches = 0
    /\ adminCalls = 0
    /\ notified = 0
    /\ cancelledHides = 0
    /\ adminLast = "init"

ControllerInit ==
    /\ variant \in Variants
    /\ page = "live"
    /\ modalOpen = FALSE
    /\ statusWaiting = TRUE
    /\ statusApproved = FALSE
    /\ statusRejected = FALSE
    /\ reqIdDisplay = IdPlaceholder
    /\ currentReqId = NULL
    /\ pollInterval = NULL
    /\ timers = [h \in {} |-> 0]
    /\ nextHandle = 1
    /\ nextReq = 1
    /\ downloadFetches = 0
    /\ checkFetches = [r \in ReqIds |-> 0]
    /\ cancelFetches = [r \in ReqIds |-> 0]
    /\ navTimeouts = [rl \in ReqIds \X Links |-> 0]
    /\ navScheduled = [r \in ReqIds |-> 0]
    /\ navs = [l \in Links |-> 0]
    /\ alerts = 0
    /\ initiated = 0
    /\ ticks = 0
    /\ last = NoEvent

\* The watcher and view state right after the script's top level ran on a
\* page whose storage holds no view preference.
Init ==
    /\ ControllerInit
    /\ AdminInit
    /\ pausedState = FALSE
    /\ currentConfigId = NULL
    /\ overlayShown = FALSE
    /\ mainBlurred = FALSE
    /\ statusInterval = TRUE
    /\ statusFetches = 0
    /\ statusTicks = 0
    /\ statusNavs = [t \in Targets |-> 0]
    /\ location = FILES
    /\ pauseToggles = 0
    /\ isGridView = TRUE
    /\ viewMode = NONE
    /\ shownMode = "grid"
    /\ seen = NoStatus

\* ---------------------------------------------------------------- handlers
\* initiateDownload(filename, path), synchronous part: open the modal, reset
\* the three panels to Waiting, (builds 2, 3) reset the id text, (build 2)
\* forget the active request id, and send request_download.
initiateDownload ==
    /\ modalOpen' = TRUE
    /\ statusWaiting' = TRUE
    /\ statusRejected' = FALSE
    /\ statusApproved' = FALSE
    /\ reqIdDisplay' = IF variant = 1 THEN reqIdDisplay ELSE IdPlaceholder
    /\ currentReqId' = IF variant = 2 THEN NULL ELSE currentReqId
    /\ downloadFetches' = downloadFetches + 1
    /\ UNCHANGED <<pollInterval, timers, nextHandle, navs, alerts, page>>

\* onDownloadData with the approved answer handled like a pending one
onDownloadDataPollsApproved(status, reqId, link) ==
    IF status = "approved" \/ status = "pending" THEN
        /\ currentReqId' = IF variant = 2 THEN reqId ELSE currentReqId
        /\ reqIdDisplay' = IdText(reqId)
        /\ pollRequest(reqId)
        /\ UNCHANGED <<modalOpen, navs, alerts, page>>
    ELSE
        UNCHANGED <<modalOpen, timers, currentReqId, pollInterval, nextHandle,
                    reqIdDisplay, navs, alerts, page>>

\* .then(data => ...) of request_download
onDownloadData(status, reqId, link) ==
    IF status = "approved" THEN
        /\ closeModal
        /\ navs' = Inc(navs, link)
        /\ UNCHANGED <<nextHandle, reqIdDisplay, alerts, page>>
    ELSE IF status = "pending" THEN
        /\ currentReqId' = IF variant = 2 THEN reqId ELSE currentReqId
        /\ reqIdDisplay' = IdText(reqId)
        /\ pollRequest(reqId)
        /\ UNCHANGED <<modalOpen, navs, alerts, page>>
    ELSE
        UNCHANGED <<modalOpen, timers, currentReqId, pollInterval, nextHandle,
                    reqIdDisplay, navs, alerts, page>>

\* .catch(err => ...) of request_download (builds 2 and 3)
onDownloadFailed ==
    /\ closeModal
    /\ alerts' = alerts + 1
    /\ page' = "reloading"
    /\ UNCHANGED <<nextHandle, reqIdDisplay, navs>>

\* Completion of a request_download fetch.  Build 1 has neither the
\* response.ok test nor a catch: a rejected fetch is an unhandled rejection,
\* and the body of a non-2xx answer (which carries no status) falls through
\* both branches.  Builds 2 and 3 throw on !response.ok and catch.
downloadCompleted(outcome, status, reqId, link) ==
    IF outcome = "ok" THEN
        onDownloadData(status, reqId, link)
    ELSE IF variant = 1 THEN
        UNCHANGED <<modalOpen, timers, currentReqId, pollInterval, nextHandle,
                    reqIdDisplay, navs, alerts, page>>
    ELSE
        onDownloadFailed

\* onCheckData with the slip of calling showApproved() in the rejected branch
onCheckDataApprovesRejected(reqId, status, link) ==
    IF status = "approved" THEN
        /\ timers' = ClearInterval(timers, pollInterval)
        /\ showApproved
        /\ navTimeouts' = Inc(navTimeouts, <<reqId, link>>)
        /\ navScheduled' = Inc(navScheduled, reqId)
    ELSE IF status = "rejected" THEN
        /\ timers' = ClearInterval(timers, pollInterval)
        /\ showApproved
        /\ UNCHANGED <<navTimeouts, navScheduled>>
    ELSE
        UNCHANGED <<timers, statusWaiting, statusApproved, statusRejected,
                    navTimeouts, navScheduled>>

\* onCheckData with the approved branch's setTimeout copied into the
\* rejected branch
onCheckDataNavigatesRejected(reqId, status, link) ==
    IF status = "approved" THEN
        /\ timers' = ClearInterval(timers, pollInterval)
        /\ showApproved
        /\ navTimeouts' = Inc(navTimeouts, <<reqId, link>>)
        /\ navScheduled' = Inc(navScheduled, reqId)
    ELSE IF status = "rejected" THEN
        /\ timers' = ClearInterval(timers, pollInterval)
        /\ showRejected
        /\ navTimeouts' = Inc(navTimeouts, <<reqId, "/dl/a">>)
        /\ navScheduled' = Inc(navScheduled, reqId)
    ELSE
        UNCHANGED <<timers, statusWaiting, statusApproved, statusRejected,
                    navTimeouts, navScheduled>>

\* .then(data => ...) of a check_request fetch issued by the interval
\* callback of pollRequest.  clearInterval is applied to the global
\* pollInterval, whatever timer issued the fetch.
onCheckData(reqId, status, link) ==
    IF status = "approved" THEN
        /\ timers' = ClearInterval(timers, pollInterval)
        /\ showApproved
        /\ navTimeouts' = Inc(navTimeouts, <<reqId, link>>)
        /\ navScheduled' = Inc(navScheduled, reqId)
    ELSE IF status = "rejected" THEN
        /\ timers' = ClearInterval(timers, pollInterval)
        /\ showRejected
        /\ UNCHANGED <<navTimeouts, navScheduled>>
    ELSE
        UNCHANGED <<timers, statusWaiting, statusApproved, statusRejected,
                    navTimeouts, navScheduled>>

\* checkCompleted with a catch that gives up polling on a failed fetch
checkCompletedStopsOnFailure(outcome, reqId, status, link) ==
    IF outcome = "ok" THEN
        onCheckData(reqId, status, link)
    ELSE
        /\ timers' = ClearInterval(timers, pollInterval)
        /\ UNCHANGED <<statusWaiting, statusApproved, statusRejected,
                       navTimeouts, navScheduled>>

\* Completion of a check_request fetch: the chain has no catch, so a
\* rejected fetch or an unparsable body changes nothing.
checkCompleted(outcome, reqId, status, link) ==
    IF outcome = "ok" THEN
        onCheckData(reqId, status, link)
    ELSE
        UNCHANGED <<timers, statusWaiting, statusApproved, statusRejected,
                    navTimeouts, navScheduled>>

\* The setTimeout callback of the approved branch
navigateAfterDelayKeepsModal(link) ==
    /\ navs' = Inc(navs, link)
    /\ UNCHANGED <<modalOpen, currentReqId, pollInterval, timers>>

navigateAfterDelay(link) ==
    /\ navs' = Inc(navs, link)
    /\ closeModal

\* cancelDownload() (build 2): best-effort cancel_request, then closeModal()
cancelDownload ==
    /\ cancelFetches' = IF currentReqId # NULL THEN Inc(cancelFetches, currentReqId)
                        ELSE cancelFetches
    /\ closeModal

\* ----------------------------------------------------------------- actions
\* The user picks a file.
InitiateDownload ==
    /\ page = "live"
    /\ initiated < MaxInitiates
    /\ initiateDownload
    /\ initiated' = initiated + 1
    /\ last' = Event("initiateDownload", NONE, NULL, NONE)
    /\ UNCHANGED <<variant, nextReq, checkFetches, cancelFetches, navTimeouts,
                   navScheduled, ticks>>
    /\ UNCHANGED <<watcherVars, adminVars>>

\* A request_download fetch completes.  A pending answer carries the fresh
\* req_id the server issued; an approved answer carries the direct link.
DownloadResponse ==
    /\ page = "live"
    /\ downloadFetches > 0
    /\ downloadFetches' = downloadFetches - 1
    /\ \E outcome \in Outcomes :
         \E status \in (IF outcome = "ok" THEN Statuses ELSE {NONE}) :
           \E link \in (IF status = "approved" THEN Links ELSE {NONE}) :
             LET reqId == IF status = "pending" THEN nextReq ELSE NULL IN
             /\ downloadCompleted(outcome, status, reqId, link)
             /\ nextReq' = IF status = "pending" THEN nextReq + 1 ELSE nextReq
             /\ last' = Event("downloadResponse",
                              IF outcome = "ok" THEN status ELSE outcome, reqId, link)
    /\ UNCHANGED <<variant, statusWaiting, statusApproved, statusRejected,
                   checkFetches, cancelFetches, navTimeouts, navScheduled,
                   initiated, ticks>>
    /\ UNCHANGED <<watcherVars, adminVars>>

\* The interval callback of running timer h fires: one check_request fetch
\* for the req id its closure captured.
PollTick ==
    /\ page = "live"
    /\ ticks < MaxTicks
    /\ \E h \in DOMAIN timers :
         /\ checkFetches' = Inc(checkFetches, timers[h])
         /\ last' = Event("pollTick", NONE, timers[h], NONE)
    /\ ticks' = ticks + 1
    /\ UNCHANGED <<variant, page, modalOpen, statusWaiting, statusApproved,
                   statusRejected, reqIdDisplay, currentReqId, pollInterval, timers,
                   nextHandle, nextReq, downloadFetches, cancelFetches, navTimeouts,
                   navScheduled, navs, alerts, initiated>>
    /\ UNCHANGED <<watcherVars, adminVars>>

\* A check_request fetch completes (in any order among those in flight).
CheckResponse ==
    /\ page = "live"
    /\ \E reqId \in ReqIds :
         /\ checkFetches[reqId] > 0
         /\ checkFetches' = Dec(checkFetches, reqId)
         /\ \E outcome \in {"neterr", "ok"} :
              \E status \in (IF outcome = "ok" THEN Statuses ELSE {NONE}) :
                \E link \in (IF status = "approved" THEN Links ELSE {NONE}) :
                  /\ checkCompleted(outcome, reqId, status, link)
                  /\ last' = Event("checkResponse",
                                   IF outcome = "ok" THEN status ELSE outcome, reqId, link)
    /\ UNCHANGED <<variant, page, modalOpen, reqIdDisplay, currentReqId, pollInterval,
                   nextHandle, nextReq, downloadFetches, cancelFetches, navs, alerts,
                   initiated, ticks>>
    /\ UNCHANGED <<watcherVars, adminVars>>

\* The 1.5 s timeout of an approved answer expires.
NavTimeoutFire ==
    /\ page = "live"
    /\ \E rl \in ReqIds \X Links :
         /\ navTimeouts[rl] > 0
         /\ navTimeouts' = Dec(navTimeouts, rl)
         /\ navigateAfterDelay(rl[2])
         /\ last' = Event("navTimeout", NONE, rl[1], rl[2])
    /\ UNCHANGED <<variant, page, statusWaiting, statusApproved, statusRejected,
                   reqIdDisplay, nextHandle, nextReq, downloadFetches, checkFetches,
                   cancelFetches, navScheduled, alerts, initiated, ticks>>
    /\ UNCHANGED <<watcherVars, adminVars>>

\* The user closes the modal.
CloseModal ==
    /\ page = "live"
    /\ closeModal
    /\ last' = Event("closeModal", NONE, NULL, NONE)
    /\ UNCHANGED <<variant, page, statusWaiting, statusApproved, statusRejected,
                   reqIdDisplay, nextHandle, nextReq, downloadFetches, checkFetches,
                   cancelFetches, navTimeouts, navScheduled, navs, alerts, initiated,
                   ticks>>
    /\ UNCHANGED <<watcherVars, adminVars>>

\* The user presses Cancel (the function exists in build 2 only).
CancelDownload ==
    /\ page = "live"
    /\ variant = 2
    /\ cancelDownload
    /\ last' = Event("cancelDownload", NONE, currentReqId, NONE)
    /\ UNCHANGED <<variant, page, statusWaiting, statusApproved, statusRejected,
                   reqIdDisplay, nextHandle, nextReq, downloadFetches, checkFetches,
                   navTimeouts, navScheduled, navs, alerts, initiated, ticks>>
    /\ UNCHANGED <<watcherVars, adminVars>>

\* A cancel_request fetch completes; success is ignored and failure is only
\* logged (.catch(e => console.error(e))).
CancelResponse ==
    /\ page = "live"
    /\ \E reqId \in ReqIds :
         /\ cancelFetches[reqId] > 0
         /\ cancelFetches' = Dec(cancelFetches, reqId)
         /\ \E outcome \in {"neterr", "ok"} :
              last' = Event("cancelResponse", outcome, reqId, NONE)
    /\ UNCHANGED <<variant, page, modalOpen, statusWaiting, statusApproved,
                   statusRejected, reqIdDisplay, currentReqId, pollInterval, timers,
                   nextHandle, nextReq, downloadFetches, checkFetches, navTimeouts,
                   navScheduled, navs, alerts, initiated, ticks>>
    /\ UNCHANGED <<watcherVars, adminVars>>

\* window.location.reload() takes effect: the script starts over, in the
\* same build, with every timer and pending callback gone.
PageReload ==
    /\ page = "reloading"
    /\ page' = "live"
    /\ modalOpen' = FALSE
    /\ statusWaiting' = TRUE
    /\ statusApproved' = FALSE
    /\ statusRejected' = FALSE
    /\ reqIdDisplay' = IdPlaceholder
    /\ currentReqId' = NULL
    /\ pollInterval' = NULL
    /\ timers' = [h \in {} |-> 0]
    /\ nextHandle' = 1
    /\ downloadFetches' = 0
    /\ checkFetches' = [r \in ReqIds |-> 0]
    /\ cancelFetches' = [r \in ReqIds |-> 0]
    /\ navTimeouts' = [rl \in ReqIds \X Links |-> 0]
    /\ last' = Event("pageReload", NONE, NULL, NONE)
    /\ UNCHANGED <<variant, nextReq, navScheduled, navs, alerts, initiated, ticks>>
    /\ UNCHANGED <<watcherVars, adminVars>>

Next ==
    \/ InitiateDownload
    \/ DownloadResponse
    \/ PollTick
    \/ CheckResponse
    \/ NavTimeoutFire
    \/ CloseModal
    \/ CancelDownload
    \/ CancelResponse
    \/ PageReload

Spec == Init /\ [][Next]_vars

\* a timeout whose delay has passed runs while the page lives, and a reload
\* that has started completes
SpecFair == Spec /\ WF_vars(NavTimeoutFire) /\ WF_vars(PageReload)

\* ------------------------------------------- session watcher, view preference
StatusEvent(op, ok, force_logout, running, paused, config_id) ==
    [op |-> op, ok |-> ok, force_logout |-> force_logout, running |-> running,
     paused |-> paused, config_id |-> config_id]
TaskEvent(op) == StatusEvent(op, FALSE, FALSE, FALSE, FALSE, NULL)

\* isGridView ? 'grid' : 'list'
ModeOf(isGrid) == IF isGrid THEN "grid" ELSE "list"

\* isGridView after toggleView(forceList); only build 2 has the parameter
ToggledGrid(v, isGrid, forceList) == IF v = 2 /\ forceList THEN FALSE ELSE ~isGrid

\* localStorage 'viewMode' after toggleView left isGridView = isGrid; only
\* build 2 saves
SavedMode(v, stored, isGrid) == IF v = 2 THEN ModeOf(isGrid) ELSE stored

\* toggleView(forceList): flip (or force) the flag, save it (build 2) and
\* give the container and the cards the classes of that layout
toggleView(forceList) ==
    /\ isGridView' = ToggledGrid(variant, isGridView, forceList)
    /\ viewMode' = SavedMode(variant, viewMode, isGridView')
    /\ shownMode' = ModeOf(isGridView')

\* loadViewPreference testing for "anything but grid"
loadViewPreferenceUnlessGrid(savedMode) == savedMode # "grid"

\* loadViewPreference(): whether it calls toggleView(true)
loadViewPreference(savedMode) == savedMode = "list"

\* The script's top level on a fresh document (served in grid layout, flags
\* at their declared values): loadViewPreference() in build 2, then
\* setInterval(checkStatus, 1000).
loadPage ==
    /\ pausedState' = FALSE
    /\ currentConfigId' = NULL
    /\ overlayShown' = FALSE
    /\ mainBlurred' = FALSE
    /\ statusInterval' = TRUE
    /\ statusFetches' = 0
    /\ LET forceList == variant = 2 /\ loadViewPreference(viewMode) IN
         /\ isGridView' = IF forceList THEN ToggledGrid(variant, TRUE, TRUE) ELSE TRUE
         /\ viewMode' = IF forceList THEN SavedMode(variant, viewMode, isGridView')
                        ELSE viewMode
         /\ shownMode' = ModeOf(isGridView')

\* window.location.href = target (or window.location.reload())
navigate(target) ==
    /\ statusNavs' = Inc(statusNavs, target)
    /\ location' = target
    /\ page' = "leaving"

\* applyPause without the comparison against pausedState
applyPauseUnguarded(paused) ==
    /\ pausedState' = paused
    /\ overlayShown' = paused
    /\ mainBlurred' = paused
    /\ pauseToggles' = pauseToggles + 1

\* the pause / unpause branches of checkStatus
applyPause(paused) ==
    IF paused /\ ~pausedState THEN
        /\ pausedState' = TRUE
        /\ overlayShown' = TRUE
        /\ mainBlurred' = TRUE
        /\ pauseToggles' = pauseToggles + 1
    ELSE IF ~paused /\ pausedState THEN
        /\ pausedState' = FALSE
        /\ overlayShown' = FALSE
        /\ mainBlurred' = FALSE
        /\ pauseToggles' = pauseToggles + 1
    ELSE
        UNCHANGED <<pausedState, overlayShown, mainBlurred, pauseToggles>>

\* onStatusData with the running test ahead of the force_logout test
onStatusDataRunningFirst(force_logout, running, paused, config_id) ==
    IF variant = 1 THEN
        /\ IF ~running THEN navigate(RELOAD) ELSE UNCHANGED <<statusNavs, location, page>>
        /\ applyPause(paused)
        /\ UNCHANGED currentConfigId
    ELSE IF ~running THEN
        /\ navigate(LOGOUT)
        /\ UNCHANGED <<currentConfigId, pausedState, overlayShown, mainBlurred, pauseToggles>>
    ELSE IF force_logout THEN
        /\ navigate(LOGIN)
        /\ UNCHANGED <<currentConfigId, pausedState, overlayShown, mainBlurred, pauseToggles>>
    ELSE IF currentConfigId # NULL /\ currentConfigId # config_id THEN
        /\ navigate(FILES)
        /\ UNCHANGED <<currentConfigId, pausedState, overlayShown, mainBlurred, pauseToggles>>
    ELSE
        /\ currentConfigId' = IF currentConfigId = NULL THEN config_id ELSE currentConfigId
        /\ UNCHANGED <<statusNavs, location, page>>
        /\ applyPause(paused)

\* onStatusData adopting a changed config_id as the new baseline
onStatusDataRebaselines(force_logout, running, paused, config_id) ==
    IF variant = 1 THEN
        /\ IF ~running THEN navigate(RELOAD) ELSE UNCHANGED <<statusNavs, location, page>>
        /\ applyPause(paused)
        /\ UNCHANGED currentConfigId
    ELSE IF force_logout THEN
        /\ navigate(LOGIN)
        /\ UNCHANGED <<currentConfigId, pausedState, overlayShown, mainBlurred, pauseToggles>>
    ELSE IF ~running THEN
        /\ navigate(LOGOUT)
        /\ UNCHANGED <<currentConfigId, pausedState, overlayShown, mainBlurred, pauseToggles>>
    ELSE
        /\ currentConfigId' = config_id
        /\ UNCHANGED <<statusNavs, location, page>>
        /\ applyPause(paused)

\* .then(data => ...) of checkStatus.  Build 1 knows neither force_logout nor
\* config_id, reloads when the server is not running and, having no return
\* there, goes on to the pause handling.  Builds 2 and 3 are identical.
onStatusData(force_logout, running, paused, config_id) ==
    IF variant = 1 THEN
        /\ IF ~running THEN navigate(RELOAD) ELSE UNCHANGED <<statusNavs, location, page>>
        /\ applyPause(paused)
        /\ UNCHANGED currentConfigId
    ELSE IF force_logout THEN
        /\ navigate(LOGIN)
        /\ UNCHANGED <<currentConfigId, pausedState, overlayShown, mainBlurred, pauseToggles>>
    ELSE IF ~running THEN
        /\ navigate(LOGOUT)
        /\ UNCHANGED <<currentConfigId, pausedState, overlayShown, mainBlurred, pauseToggles>>
    ELSE IF currentConfigId # NULL /\ currentConfigId # config_id THEN
        /\ navigate(FILES)
        /\ UNCHANGED <<currentConfigId, pausedState, overlayShown, mainBlurred, pauseToggles>>
    ELSE
        /\ currentConfigId' = IF currentConfigId = NULL THEN config_id ELSE currentConfigId
        /\ UNCHANGED <<statusNavs, location, page>>
        /\ applyPause(paused)

\* statusCompleted with a catch that stops the status interval
statusCompletedStopsOnFailure(ok, force_logout, running, paused, config_id) ==
    IF ok THEN
        /\ onStatusData(force_logout, running, paused, config_id)
        /\ UNCHANGED statusInterval
    ELSE
        /\ statusInterval' = FALSE
        /\ UNCHANGED <<statusNavs, location, page, currentConfigId, pausedState,
                       overlayShown, mainBlurred, pauseToggles>>

\* Completion of a status fetch: the chain has no catch, so a rejected fetch
\* or an unparsable body is an unhandled rejection; the interval is untouched.
statusCompleted(ok, force_logout, running, paused, config_id) ==
    IF ok THEN
        /\ onStatusData(force_logout, running, paused, config_id)
        /\ UNCHANGED statusInterval
    ELSE
        UNCHANGED <<statusNavs, location, page, currentConfigId, pausedState,
                    overlayShown, mainBlurred, pauseToggles, statusInterval>>

\* The status interval fires: checkStatus() issues one status fetch.
StatusTick ==
    /\ page = "live"
    /\ statusInterval
    /\ statusTicks < MaxStatusTicks
    /\ statusTicks' = statusTicks + 1
    /\ statusFetches' = statusFetches + 1
    /\ seen' = TaskEvent("statusTick")
    /\ UNCHANGED <<variant, page, controllerVars, adminVars, pausedState, currentConfigId,
                   overlayShown, mainBlurred, statusInterval, statusNavs, location,
                   pauseToggles, isGridView, viewMode, shownMode>>

\* A status fetch completes (in any order among those in flight).
StatusResponse ==
    /\ page = "live"
    /\ statusFetches > 0
    /\ statusFetches' = statusFetches - 1
    /\ \E ok \in BOOLEAN :
         \E fl \in (IF ok THEN BOOLEAN ELSE {FALSE}), rn \in (IF ok THEN BOOLEAN ELSE {FALSE}),
            ps \in (IF ok THEN BOOLEAN ELSE {FALSE}),
            cfg \in (IF ok THEN ConfigIds ELSE {NULL}) :
           /\ statusCompleted(ok, fl, rn, ps, cfg)
           /\ seen' = StatusEvent("statusResponse", ok, fl, rn, ps, cfg)
    /\ UNCHANGED <<variant, controllerVars, adminVars, statusTicks, isGridView, viewMode, shownMode>>

\* The user clicks the view button.
ToggleView ==
    /\ page = "live"
    /\ toggleView(FALSE)
    /\ seen' = TaskEvent("toggleView")
    /\ UNCHANGED <<variant, page, controllerVars, adminVars, pausedState, currentConfigId,
                   overlayShown, mainBlurred, statusInterval, statusFetches,
                   statusTicks, statusNavs, location, pauseToggles>>

\* The navigation checkStatus started completes on a page that serves the
\* listing: a fresh document runs the script again.
PageLoad ==
    /\ page = "leaving"
    /\ location \in ClientPages
    /\ page' = "live"
    /\ loadPage
    /\ seen' = TaskEvent("pageLoad")
    /\ UNCHANGED <<variant, controllerVars, adminVars, statusTicks, statusNavs, location,
                   pauseToggles>>

\* The user opens the listing again (or reloads it) in the same browser.
PageRevisit ==
    /\ page = "live"
    /\ loadPage
    /\ seen' = TaskEvent("pageRevisit")
    /\ UNCHANGED <<variant, page, controllerVars, adminVars, statusTicks, statusNavs, location,
                   pauseToggles>>

\* A first page load; the browser's storage may hold a preference saved by
\* an earlier session.
InitPage ==
    /\ ControllerInit
    /\ AdminInit
    /\ pausedState = FALSE
    /\ currentConfigId = NULL
    /\ overlayShown = FALSE
    /\ mainBlurred = FALSE
    /\ statusInterval = TRUE
    /\ statusFetches = 0
    /\ statusTicks = 0
    /\ statusNavs = [t \in Targets |-> 0]
    /\ location = FILES
    /\ pauseToggles = 0
    /\ viewMode \in ViewModes \cup {NONE}
    /\ isGridView = IF variant = 2 /\ loadViewPreference(viewMode)
                    THEN ToggledGrid(variant, TRUE, TRUE) ELSE TRUE
    /\ shownMode = ModeOf(isGridView)
    /\ seen = NoStatus

NextPage ==
    \/ StatusTick
    \/ StatusResponse
    \/ ToggleView
    \/ PageLoad
    \/ PageRevisit

SpecPage == InitPage /\ [][NextPage]_vars

\* ------------------------------------------- admin console: notification toast
\* everything client.js owns; the admin console page does not load it
clientVars == <<variant, page, controllerVars, watcherVars>>

toastVars == <<toastTimeout, toastTimers, nextToastHandle, toastShown, toastMessage,
               toastAge, notified, cancelledHides>>

Without(f, h) == [k \in DOMAIN f \ {h} |-> f[k]]

showNotificationKeepsTimer(message) ==
    /\ toastMessage' = message
    /\ toastShown' = TRUE
    /\ toastTimers' = toastTimers @@ (nextToastHandle :> ToastDelay)
    /\ toastTimeout' = nextToastHandle
    /\ nextToastHandle' = nextToastHandle + 1
    /\ toastAge' = 0
    /\ notified' = notified + 1
    /\ UNCHANGED cancelledHides

\* function showNotification(message)
showNotification(message) ==
    /\ toastMessage' = message
    /\ toastShown' = TRUE
    \* if (toastTimeout) clearTimeout(toastTimeout); toastTimeout = setTimeout(..., 3000)
    /\ LET kept == IF toastTimeout # NULL THEN Without(toastTimers, toastTimeout)
                   ELSE toastTimers
       IN /\ toastTimers' = kept @@ (nextToastHandle :> ToastDelay)
          /\ cancelledHides' = cancelledHides
                 + (IF DOMAIN kept # DOMAIN toastTimers THEN 1 ELSE 0)
    /\ toastTimeout' = nextToastHandle
    /\ nextToastHandle' = nextToastHandle + 1
    /\ toastAge' = 0
    /\ notified' = notified + 1

\* updateConfig(type): the POST leaves
UpdateConfig ==
    /\ adminCalls < MaxAdminCalls
    /\ \E type \in ConfigTypes : configFetches' = Inc(configFetches, type)
    /\ adminCalls' = adminCalls + 1
    /\ adminLast' = "updateConfig"
    /\ UNCHANGED <<clientVars, toastVars, decisionFetches, requestsFetches>>

\* updateConfig's fetch settles: .then(() => showNotification(msg)); a
\* rejected fetch has no handler
ConfigAnswered ==
    /\ \E type \in ConfigTypes, ok \in BOOLEAN :
         /\ configFetches[type] > 0
         /\ configFetches' = Dec(configFetches, type)
         /\ IF ok THEN showNotification(ConfigMessage(type)) ELSE UNCHANGED toastVars
    /\ adminLast' = "configAnswered"
    /\ UNCHANGED <<clientVars, decisionFetches, requestsFetches, adminCalls>>

\* decide(reqId, decision): the POST leaves
Decide ==
    /\ adminCalls < MaxAdminCalls
    /\ \E decision \in Decisions : decisionFetches' = Inc(decisionFetches, decision)
    /\ adminCalls' = adminCalls + 1
    /\ adminLast' = "decide"
    /\ UNCHANGED <<clientVars, toastVars, configFetches, requestsFetches>>

\* decide's fetch settles: .then(() => { fetchRequests(); showNotification(...) })
DecisionAnswered ==
    /\ \E decision \in Decisions, ok \in BOOLEAN :
         /\ decisionFetches[decision] > 0
         /\ decisionFetches' = Dec(decisionFetches, decision)
         /\ IF ok
            THEN /\ requestsFetches' = requestsFetches + 1
                 /\ showNotification(DecisionMessage(decision))
            ELSE UNCHANGED <<requestsFetches, toastVars>>
    /\ adminLast' = "decisionAnswered"
    /\ UNCHANGED <<clientVars, configFetches, adminCalls>>

\* a fetchRequests answer (or failure): the table is redrawn, the toast is
\* not touched
RequestsLoaded ==
    /\ requestsFetches > 0
    /\ requestsFetches' = requestsFetches - 1
    /\ adminLast' = "requestsLoaded"
    /\ UNCHANGED <<clientVars, toastVars, configFetches, decisionFetches, adminCalls>>

\* a hide timeout that is due runs: toast.classList.add('translate-y-20', 'opacity-0')
ToastHide ==
    /\ \E h \in DOMAIN toastTimers :
         /\ toastTimers[h] = 0
         /\ toastTimers' = Without(toastTimers, h)
    /\ toastShown' = FALSE
    /\ adminLast' = "toastHide"
    /\ UNCHANGED <<clientVars, toastTimeout, nextToastHandle, toastMessage, toastAge,
                   notified, cancelledHides, configFetches, decisionFetches,
                   requestsFetches, adminCalls>>

\* one second passes; a timeout that is due may still run late
TimePasses ==
    /\ \/ toastAge < ToastDelay
       \/ \E h \in DOMAIN toastTimers : toastTimers[h] > 0
    /\ toastAge' = IF toastAge < ToastDelay THEN toastAge + 1 ELSE toastAge
    /\ toastTimers' = [h \in DOMAIN toastTimers |->
                          IF toastTimers[h] > 0 THEN toastTimers[h] - 1 ELSE 0]
    /\ adminLast' = "timePasses"
    /\ UNCHANGED <<clientVars, toastTimeout, nextToastHandle, toastShown, toastMessage,
                   notified, cancelledHides, configFetches, decisionFetches,
                   requestsFetches, adminCalls>>

NextAdmin ==
    \/ UpdateConfig
    \/ ConfigAnswered
    \/ Decide
    \/ DecisionAnswered
    \/ RequestsLoaded
    \/ ToastHide
    \/ TimePasses

SpecAdmin == Init /\ [][NextAdmin]_vars

\* ------------------------------------------------------------------ claims
LastWas(op, status) == last.op = op /\ last.status = status
Closing == {"closeModal", "cancelDownload"}

\* C1: at most one request-polling interval timer is active at any time.
AtMostOnePollTimer == Cardinality(DOMAIN timers) <= 1

\* C2: a check_request answer processed right after closeModal() or
\* cancelDownload() is a no-op: it shows no panel, schedules no navigation
\* and re-establishes neither a request id nor a timer.
PollAfterCloseIsNoOp ==
    [][(last.op \in Closing /\ last'.op = "checkResponse")
         => /\ UNCHANGED <<statusWaiting, statusApproved, statusRejected>>
            /\ UNCHANGED <<navTimeouts, navScheduled, navs>>
            /\ UNCHANGED <<currentReqId, timers, pollInterval>>]_vars

\* C3: for every request id the polling of which reported approved, exactly
\* one navigation has been scheduled, never more.
ExactlyOneNavigationScheduled ==
    /\ \A r \in ReqIds : navScheduled[r] <= 1
    /\ (LastWas("checkResponse", "approved") => navScheduled[last.req] = 1)

\* C4: the Approved panel is shown, and a navigation is scheduled or
\* performed, only by the task that processes an answer whose status is
\* approved (or by the timeout such a task scheduled); pending timeouts never
\* outnumber the approved answers that scheduled them.
ApprovedOnlyOnApprovedStatus ==
    [][/\ (statusApproved' /\ ~statusApproved) => last'.op = "checkResponse" /\ last'.status = "approved"
       /\ (navScheduled' # navScheduled) => last'.op = "checkResponse" /\ last'.status = "approved"
       /\ (\E rl \in ReqIds \X Links : navTimeouts'[rl] > navTimeouts[rl])
             => last'.op = "checkResponse" /\ last'.status = "approved"
       /\ (navs' # navs) => \/ last'.op = "downloadResponse" /\ last'.status = "approved"
                            \/ /\ last'.op = "navTimeout"
                               /\ navTimeouts[<<last'.req, last'.link>>] > 0
                               /\ navScheduled[last'.req] > 0]_vars

ApprovedPanelShown ==
    /\ LastWas("checkResponse", "approved")
    /\ statusApproved
    /\ navScheduled[last.req] > 0

\* C5: once an approved or rejected answer for a request has been handled,
\* no running timer polls that request any more.
TerminalAnswerStopsItsTimer ==
    (last.op = "checkResponse" /\ last.status \in {"approved", "rejected"})
        => \A h \in DOMAIN timers : timers[h] # last.req

\* C6: processing a rejected answer shows the Rejected panel (Waiting
\* hidden) and neither schedules nor performs a navigation.
RejectedNeverNavigates ==
    [][(last'.op = "checkResponse" /\ last'.status = "rejected")
         => /\ statusRejected' /\ ~statusWaiting'
            /\ UNCHANGED <<navTimeouts, navScheduled, navs>>]_vars

RejectedPanelShown ==
    /\ LastWas("checkResponse", "rejected")
    /\ statusRejected
    /\ modalOpen

\* C7: a failed request_download (network error or non-2xx) closes the
\* modal, alerts, reloads, creates no polling timer and leaves no active
\* request id.
DownloadFailureSignalled ==
    [][(last'.op = "downloadResponse" /\ last'.status \in {"neterr", "http_error"})
         => /\ ~modalOpen'
            /\ alerts' = alerts + 1
            /\ page' = "reloading"
            /\ DOMAIN timers' \subseteq DOMAIN timers
            /\ currentReqId' = NULL]_vars

\* C8: an approved request_download answer navigates to its direct_link
\* and starts no polling timer and records no active request id.
DirectApprovalNeverPolls ==
    [][(last'.op = "downloadResponse" /\ last'.status = "approved")
         => /\ navs' = Inc(navs, last'.link)
            /\ DOMAIN timers' \subseteq DOMAIN timers
            /\ UNCHANGED <<pollInterval, nextHandle>>
            /\ currentReqId' = NULL
            /\ ~modalOpen']_vars

DirectApprovalNavigated ==
    /\ LastWas("downloadResponse", "approved")
    /\ navs[last.link] > 0
    /\ initiated > 0

\* C9: after closeModal() no polling timer is running and no request id is
\* recorded.
CloseModalStopsAllPolling ==
    last.op = "closeModal" => (DOMAIN timers = {} /\ currentReqId = NULL)

\* C10: after cancelDownload() no polling timer is running and no request id
\* is recorded.
CancelStopsAllPolling ==
    last.op = "cancelDownload" => (DOMAIN timers = {} /\ currentReqId = NULL)

\* C11: a request_download answer processed right after closeModal() or
\* cancelDownload() records no request id and starts no polling timer.
DownloadAnswerAfterCloseStaysIdle ==
    [][(last.op \in Closing /\ last'.op = "downloadResponse")
         => UNCHANGED <<currentReqId, timers, pollInterval>>]_vars

\* C17: a check_request fetch that fails changes nothing (the timer keeps
\* running, no panel changes, the modal and the request id stay, nothing is
\* navigated); a running timer can always tick, whatever fetches are still
\* in flight; and an approved or rejected answer handled later still shows
\* its panel.
PollFailureIsSwallowed ==
    /\ []((page = "live" /\ DOMAIN timers # {} /\ ticks < MaxTicks) => ENABLED PollTick)
    /\ [][/\ (last'.op = "checkResponse" /\ last'.status = "neterr")
               => UNCHANGED <<timers, pollInterval, statusWaiting, statusApproved,
                              statusRejected, modalOpen, currentReqId, navTimeouts,
                              navScheduled, navs, page>>
          /\ (last'.op = "checkResponse" /\ last'.status = "approved")
               => statusApproved' /\ ~statusWaiting'
          /\ (last'.op = "checkResponse" /\ last'.status = "rejected")
               => statusRejected' /\ ~statusWaiting']_vars

PollFailureSeenWhilePolling ==
    /\ LastWas("checkResponse", "neterr")
    /\ DOMAIN timers # {}
    /\ modalOpen /\ statusWaiting
    /\ ticks < MaxTicks

\* C19: while a request id is recorded as active (build 2), every
\* check_request fetch a timer issues is for that request id.
PollsOnlyTheActiveRequest ==
    (variant = 2 /\ currentReqId # NULL /\ last.op = "pollTick")
        => last.req = currentReqId

\* the builds whose checkStatus is the one of lines 368-403 (585-625 is the
\* same text)
WatcherBuilds == {2, 3}
Answered(s) == s.op = "statusResponse" /\ s.ok

\* C12: in builds 2 and 3 a status answer with force_logout true starts
\* exactly one navigation, to the login endpoint, whatever running, paused
\* and config_id are, and no navigation to any other target.
ForceLogoutGoesToLogin ==
    [][(variant \in WatcherBuilds /\ Answered(seen') /\ seen'.force_logout)
         => /\ statusNavs' = Inc(statusNavs, LOGIN)
            /\ location' = LOGIN
            /\ page' = "leaving"]_vars

ForcedLogoutSeen ==
    /\ variant \in WatcherBuilds
    /\ Answered(seen) /\ seen.force_logout /\ ~seen.running
    /\ page = "leaving" /\ location = LOGIN
    /\ statusNavs[LOGIN] = 1

\* C13: with a baseline recorded, an answer (force_logout false, running
\* true) carrying the baseline's config id starts no navigation and keeps
\* the baseline; one carrying another id starts exactly one navigation, to
\* /files, and keeps the baseline too.
ConfigDriftRedirectsOnce ==
    [][(Answered(seen') /\ ~seen'.force_logout /\ seen'.running /\ currentConfigId # NULL)
         => /\ currentConfigId' = currentConfigId
            /\ IF seen'.config_id = currentConfigId
               THEN UNCHANGED <<statusNavs, location, page>>
               ELSE /\ statusNavs' = Inc(statusNavs, FILES)
                    /\ location' = FILES
                    /\ page' = "leaving"]_vars

ConfigDriftSeen ==
    /\ Answered(seen) /\ ~seen.force_logout /\ seen.running
    /\ currentConfigId # NULL /\ seen.config_id # currentConfigId
    /\ page = "leaving" /\ location = FILES
    /\ statusNavs[FILES] = 1

\* C14: a status answer with force_logout false and running false starts a
\* navigation to /logout (and to nothing else) and does not touch the pause
\* state.
NotRunningGoesToLogout ==
    [][(Answered(seen') /\ ~seen'.force_logout /\ ~seen'.running)
         => /\ statusNavs' = Inc(statusNavs, LOGOUT)
            /\ UNCHANGED <<pausedState, overlayShown, mainBlurred, pauseToggles>>]_vars

\* C15: a status answer that starts no navigation leaves pausedState, the
\* overlay and the blur equal to its paused value, and changes the pause UI
\* once when that value differs from pausedState and not at all otherwise.
PauseToggledOncePerEdge ==
    /\ [](overlayShown = pausedState /\ mainBlurred = pausedState)
    /\ [][(Answered(seen') /\ page' = "live")
            => /\ pausedState' = seen'.paused
               /\ overlayShown' = seen'.paused
               /\ mainBlurred' = seen'.paused
               /\ pauseToggles' = pauseToggles + (IF seen'.paused = pausedState THEN 0 ELSE 1)]_vars

PauseEdgesSeen ==
    /\ Answered(seen) /\ page = "live"
    /\ ~seen.paused /\ ~pausedState
    /\ pauseToggles = 2

\* C16: a failed status fetch changes no local state and starts no
\* navigation, and the status interval keeps firing after it.
StatusFailureIsSwallowed ==
    /\ []((page = "live" /\ statusTicks < MaxStatusTicks) => ENABLED StatusTick)
    /\ [][(seen'.op = "statusResponse" /\ ~seen'.ok)
            => UNCHANGED <<pausedState, currentConfigId, overlayShown, mainBlurred,
                           pauseToggles, statusNavs, location, page, statusInterval>>]_vars

StatusFailureSeen ==
    /\ seen.op = "statusResponse" /\ ~seen.ok
    /\ page = "live" /\ statusInterval
    /\ statusTicks < MaxStatusTicks

\* C18: in build 2 the layout shown is always the stored view mode (grid
\* when nothing is stored), also right after a page load, and in every
\* build the stored value changes only in a toggleView task.
ViewPreferenceRoundTrips ==
    /\ [](variant = 2 => /\ shownMode = (IF viewMode = NONE THEN "grid" ELSE viewMode)
                          /\ isGridView = (shownMode = "grid"))
    /\ [][viewMode' # viewMode => seen'.op = "toggleView"]_vars

ListRestoredAfterLoad ==
    /\ variant = 2
    /\ seen.op \in {"pageLoad", "pageRevisit"}
    /\ viewMode = "list" /\ shownMode = "list" /\ ~isGridView

\* C20: a status answer that starts a navigation changes neither
\* pausedState nor currentConfigId nor the pause overlay.
NavigatingAnswerMutatesNothing ==
    [][(Answered(seen') /\ page' = "leaving")
         => UNCHANGED <<pausedState, currentConfigId, overlayShown, mainBlurred,
                        pauseToggles>>]_vars

\* C21: within one page session currentConfigId is written at most once:
\* it leaves null only in a status answer with force_logout false and
\* running true, taking that answer's config id; once set, no task changes
\* it (only loading the page anew clears it), and an answer carrying a
\* different id starts a navigation instead of replacing it.
ConfigBaselineWrittenOnce ==
    [][/\ (currentConfigId # NULL /\ seen'.op \notin {"pageLoad", "pageRevisit"})
            => currentConfigId' = currentConfigId
       /\ (currentConfigId = NULL /\ currentConfigId' # NULL)
            => /\ Answered(seen') /\ ~seen'.force_logout /\ seen'.running
               /\ currentConfigId' = seen'.config_id
       /\ (/\ Answered(seen') /\ ~seen'.force_logout /\ seen'.running
           /\ currentConfigId # NULL /\ seen'.config_id # currentConfigId)
            => page' = "leaving"]_vars

ConfigBaselineKept ==
    /\ currentConfigId # NULL
    /\ Answered(seen) /\ ~seen.force_logout /\ seen.running
    /\ seen.config_id = currentConfigId
    /\ page = "live"
    /\ statusTicks >= 2 /\ statusFetches = 0

\* C22: in build 2, whenever a request-polling timer runs, currentReqId is
\* the request id that timer polls.
PollTimerPollsCurrentReqId ==
    variant = 2 => \A h \in DOMAIN timers : timers[h] = currentReqId

\* C23: while the approval modal is open exactly one of the panels Waiting,
\* Approved and Rejected is visible.
ExactlyOnePanelVisible ==
    modalOpen =>
        \/ (statusWaiting /\ ~statusApproved /\ ~statusRejected)
        \/ (~statusWaiting /\ statusApproved /\ ~statusRejected)
        \/ (~statusWaiting /\ ~statusApproved /\ statusRejected)

\* C24 as stated: a scheduled navigation is never cancelled; a pending
\* navigation timeout goes away only by firing, which navigates to its link
\* and closes the modal.
NavigationNeverCancelled ==
    [][\A rl \in ReqIds \X Links :
          navTimeouts'[rl] < navTimeouts[rl]
              => /\ navs' = Inc(navs, rl[2])
                 /\ ~modalOpen']_vars

\* C24: a pending navigation timeout goes away only by firing, which
\* navigates to its link and closes the modal, or by a reload of the page;
\* closeModal, cancelDownload and a new initiateDownload leave it pending,
\* and every session ends with no timeout pending: each one has fired or was
\* dropped by a reload.
NavigationFiresUnlessReloaded ==
    /\ [][\A rl \in ReqIds \X Links :
             navTimeouts'[rl] < navTimeouts[rl]
                 => \/ last'.op = "pageReload"
                    \/ /\ last' = Event("navTimeout", NONE, rl[1], rl[2])
                       /\ navTimeouts' = Dec(navTimeouts, rl)
                       /\ navs' = Inc(navs, rl[2])
                       /\ ~modalOpen']_vars
    /\ [][last'.op \in Closing \cup {"initiateDownload"} => UNCHANGED navTimeouts]_vars
    /\ <>[](\A rl \in ReqIds \X Links : navTimeouts[rl] = 0)

NavigatedDespiteNewRequest ==
    /\ last.op = "navTimeout"
    /\ navs[last.link] = 1
    /\ ~modalOpen
    /\ initiated = 2 /\ downloadFetches = 1
    /\ page = "live"

\* C25: on the admin console at most one toast hide timeout is pending, it
\* is the one the latest showNotification call scheduled and it is due 3
\* seconds after that call; so the toast is visible while the newest
\* notification is less than 3 seconds old and is hidden only when it is 3
\* seconds old or more.
OneHideTimerForTheLatestToast ==
    /\ [](/\ Cardinality(DOMAIN toastTimers) <= 1
          /\ \A h \in DOMAIN toastTimers :
                /\ h = toastTimeout
                /\ toastTimers[h] = ToastDelay - toastAge)
    /\ [](toastAge < ToastDelay => toastShown)
    /\ [][(toastShown /\ ~toastShown') => toastAge = ToastDelay]_vars

ToastHiddenAfterRestartedTimer ==
    /\ adminLast = "toastHide"
    /\ ~toastShown
    /\ notified >= 2 /\ cancelledHides >= 1
    /\ toastAge = ToastDelay
    /\ DOMAIN toastTimers = {}

====
